---- MODULE Spec2Model ----
(***************************************************************************)
(* State machine of the Home component (the application view): the task   *)
(* selector, the model loader (loadModel) and the runner (runModel).       *)
(*                                                                         *)
(* One action is one event-loop turn: a DOM event handler together with    *)
(* the effect it triggers, or the continuation of an async function after  *)
(* one of its awaits settles.  The values a handler reads (modelType,      *)
(* input, pipeline) are those of the state it is started in.               *)
(* Strings the code inspects character by character (input) are sequences  *)
(* of one-character strings; strings it only builds (output, error) are    *)
(* strings.                                                                *)
(***************************************************************************)
EXTENDS Integers, Sequences, FiniteSets, TLC

VARIABLES modelType, input, output, processing, modelStatus, pipeline,
          mounted, loads, runs, callbackHeld,
          lastProgress,   \* history: the last "progress" event since a load started, if any
          returnedEarly   \* history: runModel has taken its early return

vars == <<modelType, input, output, processing, modelStatus, pipeline,
          mounted, loads, runs, callbackHeld, lastProgress, returnedEarly>>

\* ---------------------------------------------------------------- bounds
\* Largest byte count (loaded, total) a progress event of the library reports.
MaxBytes == 3

\* ------------------------------------------------------------- constants
Null == "null"

ModelType ==
  {"sentiment", "summarization", "question-answering", "translation", "text-generation"}

\* The error messages the library rejects with, within the model.
Messages == {"network error", "Unsupported model"}

\* The texts the user types, within the model.
Inputs ==
  { <<>>,
    <<" ", "\n">>,
    <<" ", "h", "i", " ">>,
    <<"Q", "?", " ", "\n", "-", "-", "-", "\n", " ", "C">>,
    <<"a", "\n", "-", "-", "-", "\n", "b", "\n", "-", "-", "-", "\n", "c">>,
    <<"a", "\n", "-", "-", "-", "\n", "-", "-", "-", "\n", "b">> }

WhiteSpace == {" ", "\n", "\t", "\r"}

\* ------------------------------------------------------- pure functions
RECURSIVE TrimStart(_)
TrimStart(s) ==
  IF s = <<>> THEN <<>>
  ELSE IF Head(s) \in WhiteSpace THEN TrimStart(Tail(s)) ELSE s

RECURSIVE TrimEnd(_)
TrimEnd(s) ==
  IF s = <<>> THEN <<>>
  ELSE IF s[Len(s)] \in WhiteSpace THEN TrimEnd(SubSeq(s, 1, Len(s) - 1)) ELSE s

\* String.prototype.trim
Trim(s) == TrimEnd(TrimStart(s))

\* The separator of the question-answering input: "\n---\n".
Separator == <<"\n", "-", "-", "-", "\n">>

StartsWith(s, d) == Len(s) >= Len(d) /\ SubSeq(s, 1, Len(d)) = d

\* String.prototype.split(separator): the pieces between the successive,
\* non-overlapping occurrences of the separator, left to right.
RECURSIVE SplitFrom(_, _, _)
SplitFrom(s, d, piece) ==
  IF s = <<>> THEN <<piece>>
  ELSE IF StartsWith(s, d)
       THEN <<piece>> \o SplitFrom(SubSeq(s, Len(d) + 1, Len(s)), d, <<>>)
       ELSE SplitFrom(Tail(s), d, Append(piece, Head(s)))

Split(s, d) == SplitFrom(s, d, <<>>)

Digit == <<"0", "1", "2", "3", "4", "5", "6", "7", "8", "9">>

RECURSIVE IntToString(_)
IntToString(n) ==
  IF n < 10 THEN Digit[n + 1] ELSE IntToString(n \div 10) \o Digit[(n % 10) + 1]

\* (score * 100).toFixed(2), the score given in units of 1/10000.
ToFixed2(score) ==
  IntToString(score \div 100) \o "." \o Digit[((score % 100) \div 10) + 1]
                              \o Digit[(score % 10) + 1]

\* The share still to load, instead of the share loaded.
PercentOfRemaining(loaded, total) == (200 * (total - loaded) + total) \div (2 * total)

\* Math.round((loaded / total) * 100), for total > 0: halves round up.
Percent(loaded, total) == (200 * loaded + total) \div (2 * total)

\* ------------------------------------------------- the inference library
\* What a pipeline constructed for a task resolves with when it is invoked.
PipelineResults(pipe) ==
  CASE pipe = "sentiment" ->
         { [label |-> "POSITIVE", score |-> 9987], [label |-> "NEGATIVE", score |-> 5000] }
    [] pipe = "summarization" -> { [summary_text |-> "A summary."] }
    [] pipe = "question-answering" -> { [answer |-> "a field", score |-> 8123] }
    [] pipe = "translation" -> { [translation_text |-> "Bonjour"] }
    [] pipe = "text-generation" -> { [generated_text |-> "Once upon a time there"] }
    [] OTHER -> {}

\* The events the library passes to progress_callback.
ProgressEvents ==
  { e \in [status : {"initiate", "progress", "done"}, loaded : 0..MaxBytes, total : 1..MaxBytes] :
      e.loaded <= e.total }

\* ------------------------------------------------------------ the view
\* The selector left enabled during a run.
SelectDisabledOnlyLoading == modelStatus.loading

\* The selector left enabled during a load.
SelectDisabledOnlyProcessing == processing

\* disabled={modelStatus.loading || processing} of the task selector
SelectDisabled == modelStatus.loading \/ processing

\* disabled={!modelStatus.loaded || processing} of the textarea
InputDisabled == ~modelStatus.loaded \/ processing

\* The button left enabled while no model is loaded.
ButtonDisabledIgnoresLoaded == processing \/ Trim(input) = <<>>

\* The button left enabled during a run.
ButtonDisabledIgnoresProcessing == ~modelStatus.loaded \/ Trim(input) = <<>>

\* disabled={!modelStatus.loaded || processing || !input.trim()} of the button
ButtonDisabled == ~modelStatus.loaded \/ processing \/ Trim(input) = <<>>

\* ------------------------------------------------------------- the state
Init ==
  /\ modelType = "sentiment"
  /\ input = <<>>
  /\ output = ""
  /\ processing = FALSE
  /\ modelStatus = [loaded |-> FALSE, loading |-> FALSE, error |-> Null, progress |-> 0]
  /\ pipeline = Null
  /\ mounted = FALSE
  /\ loads = <<>>
  /\ runs = <<>>
  /\ callbackHeld = FALSE
  /\ lastProgress = <<>>
  /\ returnedEarly = FALSE

\* -------------------------------------------------------------- loadModel
\* The status loadModel sets before its first await.
LoadingStatus == [loaded |-> FALSE, loading |-> TRUE, error |-> Null, progress |-> 0]

\* A success status that leaves loading set.
ReadyStatusStillLoading == [loaded |-> TRUE, loading |-> TRUE, error |-> Null, progress |-> 100]

\* The status loadModel sets when the pipeline is constructed.
ReadyStatus == [loaded |-> TRUE, loading |-> FALSE, error |-> Null, progress |-> 100]

\* A catch that leaves loading set.
FailedStatusStillLoading(m) == [loaded |-> FALSE, loading |-> TRUE, error |-> m, progress |-> 0]

\* The status loadModel's catch sets.
FailedStatus(m) == [loaded |-> FALSE, loading |-> FALSE, error |-> m, progress |-> 0]

\* A loadModel that does not clear the output.
LoadModelStartKeepsOutput(t) ==
  /\ modelStatus' = LoadingStatus
  /\ output' = output
  /\ loads' = Append(loads, [task |-> t, pc |-> "import"])
  /\ lastProgress' = <<>>

\* loadModel up to its first await (the dynamic import), called for task t.
LoadModelStart(t) ==
  /\ modelStatus' = LoadingStatus
  /\ output' = ""
  /\ loads' = Append(loads, [task |-> t, pc |-> "import"])
  /\ lastProgress' = <<>>

\* The effect of the first render: loadModel for the default task.
Mount ==
  /\ ~mounted
  /\ mounted' = TRUE
  /\ LoadModelStart(modelType)
  /\ UNCHANGED <<modelType, input, processing, pipeline, runs, callbackHeld, returnedEarly>>

\* A selection whose effect does not run (modelType missing from its dependencies).
SelectTaskNoEffect(t) ==
  /\ mounted
  /\ ~SelectDisabled
  /\ t # modelType
  /\ modelType' = t
  /\ UNCHANGED <<input, output, processing, modelStatus, pipeline, mounted, loads, runs, callbackHeld, lastProgress, returnedEarly>>

\* onChange of the task selector and the effect on [modelType] it triggers.
SelectTask(t) ==
  /\ mounted
  /\ ~SelectDisabled
  /\ t # modelType
  /\ modelType' = t
  /\ LoadModelStart(t)
  /\ UNCHANGED <<input, processing, pipeline, mounted, runs, callbackHeld, returnedEarly>>

RemoveAt(s, i) == SubSeq(s, 1, i - 1) \o SubSeq(s, i + 1, Len(s))

\* The import resolves: loadModel calls the library's pipeline factory with
\* the task of its closure and the progress callback, and awaits it.
ImportResolve(i) ==
  /\ loads[i].pc = "import"
  /\ loads' = [loads EXCEPT ![i].pc = "construct"]
  /\ callbackHeld' = TRUE
  /\ UNCHANGED <<modelType, input, output, processing, modelStatus, pipeline, mounted, runs, lastProgress, returnedEarly>>

\* A success path that does not store the callable.
LoadResolveNoPipeline(i) ==
  /\ loads[i].pc = "construct"
  /\ modelStatus' = ReadyStatus
  /\ loads' = RemoveAt(loads, i)
  /\ UNCHANGED <<modelType, input, output, processing, pipeline, mounted, runs, callbackHeld, lastProgress, returnedEarly>>

\* The pipeline factory resolves with the callable for the load's task.
LoadResolve(i) ==
  /\ loads[i].pc = "construct"
  /\ pipeline' = loads[i].task
  /\ modelStatus' = ReadyStatus
  /\ loads' = RemoveAt(loads, i)
  /\ UNCHANGED <<modelType, input, output, processing, mounted, runs, callbackHeld, lastProgress, returnedEarly>>

\* A catch that only logs the error.
LoadRejectOnlyLogs(i, m) ==
  /\ loads[i].pc \in {"import", "construct"}
  /\ loads' = RemoveAt(loads, i)
  /\ UNCHANGED <<modelType, input, output, processing, modelStatus, pipeline, mounted, runs, callbackHeld, lastProgress, returnedEarly>>

\* The import or the pipeline factory rejects with message m: the catch.
LoadReject(i, m) ==
  /\ loads[i].pc \in {"import", "construct"}
  /\ modelStatus' = FailedStatus(m)
  /\ loads' = RemoveAt(loads, i)
  /\ UNCHANGED <<modelType, input, output, processing, pipeline, mounted, runs, callbackHeld, lastProgress, returnedEarly>>

\* A callback that does not test the kind of the event.
ProgressCallbackAnyKind(e) ==
  /\ callbackHeld
  /\ modelStatus' = [modelStatus EXCEPT !.progress = Percent(e.loaded, e.total)]
  /\ lastProgress' = <<[loaded |-> e.loaded, total |-> e.total]>>
  /\ UNCHANGED <<modelType, input, output, processing, pipeline, mounted, loads, runs, callbackHeld, returnedEarly>>

\* The library calls a progress_callback it was given.
ProgressCallback(e) ==
  /\ callbackHeld
  /\ modelStatus' = IF e.status = "progress"
                    THEN [modelStatus EXCEPT !.progress = Percent(e.loaded, e.total)]
                    ELSE modelStatus
  /\ lastProgress' = IF e.status = "progress"
                     THEN <<[loaded |-> e.loaded, total |-> e.total]>>
                     ELSE lastProgress
  /\ UNCHANGED <<modelType, input, output, processing, pipeline, mounted, loads, runs, callbackHeld, returnedEarly>>

\* --------------------------------------------------------------- the input
\* onChange of the textarea
SetInput(s) ==
  /\ mounted
  /\ ~InputDisabled
  /\ s # input
  /\ input' = s
  /\ UNCHANGED <<modelType, output, processing, modelStatus, pipeline, mounted, loads, runs, callbackHeld, lastProgress, returnedEarly>>

\* --------------------------------------------------------------- runModel
FormatHint == "Please format as: Question\n---\nContext"

\* The arguments runModel passes to the pipeline for task t and input s.
PipelineArgs(t, s) ==
  IF t = "question-answering"
  THEN [question |-> Trim(Split(s, Separator)[1]), context |-> Trim(Split(s, Separator)[2])]
  ELSE [text |-> s]

\* The output runModel sets for the result r of task t.
FormatResult(t, r) ==
  CASE t = "sentiment" /\ DOMAIN r = {"label", "score"} ->
         "Sentiment: " \o r.label \o "\nConfidence: " \o ToFixed2(r.score) \o "%"
    [] t = "summarization" /\ DOMAIN r = {"summary_text"} -> r.summary_text
    [] t = "question-answering" /\ DOMAIN r = {"answer", "score"} ->
         "Answer: " \o r.answer \o "\nConfidence: " \o ToFixed2(r.score) \o "%"
    [] t = "translation" /\ DOMAIN r = {"translation_text"} -> r.translation_text
    [] t = "text-generation" /\ DOMAIN r = {"generated_text"} -> r.generated_text
    [] OTHER -> "undefined"

\* An early return that does not trim the input.
RunModelReturnsEarlyNoTrim == pipeline = Null \/ input = <<>>

\* The early return of runModel.
RunModelReturnsEarly == pipeline = Null \/ Trim(input) = <<>>

\* A test that lets three or more segments through.
RunModelHintsFewerThanTwo ==
  modelType = "question-answering" /\ Len(Split(input, Separator)) < 2

\* runModel takes the format-hint branch of the question-answering case.
RunModelHints == modelType = "question-answering" /\ Len(Split(input, Separator)) # 2

\* runModel up to its await of the pipeline, or to its end when it has none.
RunModel ==
  IF RunModelReturnsEarly
  THEN /\ returnedEarly' = TRUE
       /\ UNCHANGED <<processing, output, runs>>
  ELSE IF RunModelHints
       THEN /\ output' = FormatHint
            /\ processing' = FALSE
            /\ UNCHANGED <<runs, returnedEarly>>
       ELSE /\ processing' = TRUE
            /\ output' = ""
            /\ UNCHANGED returnedEarly
            /\ runs' = Append(runs, [task |-> modelType, pipe |-> pipeline,
                                     args |-> PipelineArgs(modelType, input)])

\* onClick of the run button.
ClickRun ==
  /\ mounted
  /\ ~ButtonDisabled
  /\ RunModel
  /\ UNCHANGED <<modelType, input, modelStatus, pipeline, mounted, loads, callbackHeld, lastProgress>>

\* A runModel that clears processing in its catch only.
RunResolveKeepsProcessing(i, r) ==
  /\ i \in DOMAIN runs
  /\ r \in PipelineResults(runs[i].pipe)
  /\ output' = FormatResult(runs[i].task, r)
  /\ runs' = RemoveAt(runs, i)
  /\ UNCHANGED <<modelType, input, processing, modelStatus, pipeline, mounted, loads, callbackHeld, lastProgress, returnedEarly>>

\* The pipeline resolves with r: the rest of the case, then the finally.
RunResolve(i, r) ==
  /\ i \in DOMAIN runs
  /\ r \in PipelineResults(runs[i].pipe)
  /\ output' = FormatResult(runs[i].task, r)
  /\ processing' = FALSE
  /\ runs' = RemoveAt(runs, i)
  /\ UNCHANGED <<modelType, input, modelStatus, pipeline, mounted, loads, callbackHeld, lastProgress, returnedEarly>>

\* A catch that also drops the pipeline handle.
RunRejectClearsPipeline(i, m) ==
  /\ i \in DOMAIN runs
  /\ output' = "Error: " \o m
  /\ processing' = FALSE
  /\ pipeline' = Null
  /\ runs' = RemoveAt(runs, i)
  /\ UNCHANGED <<modelType, input, modelStatus, mounted, loads, callbackHeld, lastProgress, returnedEarly>>

\* A catch that shows the bare message.
RunRejectBareMessage(i, m) ==
  /\ i \in DOMAIN runs
  /\ output' = m
  /\ processing' = FALSE
  /\ runs' = RemoveAt(runs, i)
  /\ UNCHANGED <<modelType, input, modelStatus, pipeline, mounted, loads, callbackHeld, lastProgress, returnedEarly>>

\* The pipeline rejects with message m: the catch, then the finally.
RunReject(i, m) ==
  /\ i \in DOMAIN runs
  /\ output' = "Error: " \o m
  /\ processing' = FALSE
  /\ runs' = RemoveAt(runs, i)
  /\ UNCHANGED <<modelType, input, modelStatus, pipeline, mounted, loads, callbackHeld, lastProgress, returnedEarly>>

\* ------------------------------------------------------ the specification
AllResults == UNION { PipelineResults(t) : t \in ModelType }

Next ==
  \/ Mount
  \/ \E t \in ModelType : SelectTask(t)
  \/ \E i \in DOMAIN loads : ImportResolve(i)
  \/ \E i \in DOMAIN loads : LoadResolve(i)
  \/ \E i \in DOMAIN loads, m \in Messages : LoadReject(i, m)
  \/ \E e \in ProgressEvents : ProgressCallback(e)
  \/ \E s \in Inputs : SetInput(s)
  \/ ClickRun
  \/ \E i \in DOMAIN runs, r \in AllResults : RunResolve(i, r)
  \/ \E i \in DOMAIN runs, m \in Messages : RunReject(i, m)

Spec == Init /\ [][Next]_vars

\* Every import and every pipeline construction the library was asked for
\* settles, and so does every pipeline invocation.
LoadSettles ==
  \E i \in DOMAIN loads :
    ImportResolve(i) \/ LoadResolve(i) \/ \E m \in Messages : LoadReject(i, m)

RunSettles ==
  \E i \in DOMAIN runs :
    (\E r \in AllResults : RunResolve(i, r)) \/ (\E m \in Messages : RunReject(i, m))

LiveSpec == Spec /\ WF_vars(Mount) /\ WF_vars(LoadSettles) /\ WF_vars(RunSettles)

\* ------------------------------------------------------------ properties
\* A step in which runModel invokes the pipeline.
Invokes == Len(runs') > Len(runs)

\* A step in which loadModel is started.
StartsLoad == Len(loads') > Len(loads)

Ready == modelStatus.loaded /\ ~modelStatus.loading /\ modelStatus.error = Null

\* C1: the run button is enabled only when the status is Ready, a pipeline
\* handle is present, processing is false and the input is not blank; and
\* the pipeline is invoked only from such a state, with no run in flight.
RunOnlyWhenReady ==
  /\ [](~ButtonDisabled =>
          /\ modelStatus.loaded /\ ~modelStatus.loading
          /\ pipeline # Null
          /\ ~processing
          /\ Trim(input) # <<>>)
  /\ [][Invokes =>
          /\ Ready
          /\ pipeline # Null
          /\ ~processing /\ runs = <<>>
          /\ Trim(input) # <<>>]_vars

\* The button is enabled again after a run has completed.
RunOnlyWhenReadyWitness == ~ButtonDisabled /\ output # ""

\* C2: whenever the status is Ready the stored pipeline is the one
\* constructed for the selected task, and every invocation in flight is of
\* the pipeline constructed for the task it was started under.
PipelineOfCurrentTask ==
  /\ modelStatus.loaded => pipeline = modelType
  /\ \A i \in DOMAIN runs : runs[i].pipe = runs[i].task /\ runs[i].task = modelType

\* A run in flight on a task selected after the default one.
PipelineOfCurrentTaskWitness ==
  modelStatus.loaded /\ modelType # "sentiment" /\ runs # <<>>

\* C3: while the status is Loading or Failed the pipeline handle is empty.
PipelineEmptyUnlessReady ==
  (modelStatus.loading \/ modelStatus.error # Null) => pipeline = Null

\* C4: every selection, and the mount, starts a load; the step that starts
\* a load leaves output empty and the status Loading(0) with the load at its
\* first await; and as long as that await is pending the status is Loading
\* without error and output is empty.
LoadStartResets ==
  /\ [][(modelType' # modelType \/ mounted' # mounted) => StartsLoad]_vars
  /\ [][StartsLoad =>
          /\ output' = ""
          /\ modelStatus' = [loaded |-> FALSE, loading |-> TRUE, error |-> Null, progress |-> 0]
          /\ loads'[Len(loads')] = [task |-> modelType', pc |-> "import"]]_vars
  /\ [](\A i \in DOMAIN loads :
          loads[i].pc = "import" =>
            /\ modelStatus.loading /\ ~modelStatus.loaded /\ modelStatus.error = Null
            /\ output = "")

\* A load started by a selection, after an earlier load had succeeded.
LoadStartResetsWitness ==
  /\ loads # <<>> /\ loads[1].pc = "import"
  /\ modelType # "sentiment" /\ pipeline # Null

\* C5: provided every load settles, the status never stays Loading.
LoadingEnds == modelStatus.loading ~> ~modelStatus.loading

\* The load of a second selection is in flight, the first load having failed.
LoadingEndsWitness ==
  modelStatus.loading /\ modelType # "sentiment" /\ pipeline = Null /\ loads # <<>>

\* C6: no load in flight was started for a selection that has since been
\* replaced, and at most one load is in flight; so only the load of the
\* current selection changes the status or the pipeline handle.
NoStaleLoad ==
  /\ Len(loads) <= 1
  /\ \A i \in DOMAIN loads : loads[i].task = modelType
  /\ loads # <<>> <=> modelStatus.loading

\* The load of a new selection is in flight while the handle of the
\* previous task is still stored.
NoStaleLoadWitness ==
  loads # <<>> /\ loads[1].pc = "construct" /\ pipeline # Null /\ pipeline # modelType

\* C7: when an invocation rejects with message m, output becomes "Error: "
\* followed by m, processing becomes false, and the status is still Ready
\* with the pipeline handle present.
RunErrorShown ==
  [][\A i \in DOMAIN runs : \A m \in Messages :
       RunReject(i, m) =>
         /\ output' = "Error: " \o m
         /\ m = "network error" => output' = "Error: network error"
         /\ ~processing'
         /\ Ready' /\ modelStatus' = modelStatus
         /\ pipeline' # Null /\ pipeline' = pipeline
         /\ ~ButtonDisabled']_vars

RunErrorShownWitness ==
  output = "Error: network error" /\ ~processing /\ Ready /\ pipeline # Null

\* C8: while an invocation is in flight processing is true and output is
\* empty; processing is true only while an invocation is in flight; the
\* format-hint path leaves processing false; and, provided the invocation
\* settles, processing becomes false again.
ProcessingCleared ==
  /\ [](processing <=> runs # <<>>)
  /\ [](runs # <<>> => output = "")
  /\ [][output' = FormatHint => ~processing']_vars
  /\ processing ~> ~processing

\* A run has passed the guard and awaits the pipeline.
ProcessingClearedWitness == processing /\ runs # <<>> /\ output = ""

\* C9: at most one invocation is outstanding, and while one is the run
\* button is disabled.
OneRunAtATime ==
  /\ Len(runs) <= 1
  /\ runs # <<>> => ButtonDisabled

\* A run is in flight in a state where only the processing flag disables
\* the button.
OneRunAtATimeWitness ==
  Len(runs) = 1 /\ modelStatus.loaded /\ Trim(input) # <<>>

\* C10: a load that fails with message m leaves the status Failed(m) with
\* loaded and loading false and progress 0; in every Failed state the task
\* selector is enabled and selecting another task is possible; and that
\* selection puts the status back to Loading(0) with the error cleared.
LoadErrorRecoverable ==
  /\ [][\A i \in DOMAIN loads : \A m \in Messages :
          LoadReject(i, m) =>
            modelStatus' = [loaded |-> FALSE, loading |-> FALSE, error |-> m, progress |-> 0]]_vars
  /\ [](modelStatus.error # Null =>
          /\ ~modelStatus.loaded /\ ~modelStatus.loading
          /\ ~SelectDisabled
          /\ \A t \in ModelType \ {modelType} : ENABLED SelectTask(t))
  /\ [][(modelStatus.error # Null /\ modelType' # modelType) =>
          /\ modelStatus' = [loaded |-> FALSE, loading |-> TRUE, error |-> Null, progress |-> 0]
          /\ StartsLoad]_vars

LoadErrorRecoverableWitness ==
  modelStatus = [loaded |-> FALSE, loading |-> FALSE, error |-> "network error", progress |-> 0]

\* A step in which the progress callback handles the "progress" event e
\* while a load is in flight.
ProgressDuringLoad(e) ==
  ProgressCallback(e) /\ e.status = "progress" /\ modelStatus.loading /\ loads # <<>>

DelimiterLines(s) ==
  LET lines == Split(s, <<"\n">>)
  IN  Cardinality({ i \in 2..(Len(lines) - 1) : lines[i] = <<"-", "-", "-">> })

\* The number of occurrences of "\n---\n" in s, counted from the left
\* without overlap.
RECURSIVE SeparatorCount(_)
SeparatorCount(s) ==
  IF Len(s) < 5 THEN 0
  ELSE IF SubSeq(s, 1, 5) = <<"\n", "-", "-", "-", "\n">>
       THEN 1 + SeparatorCount(SubSeq(s, 6, Len(s)))
       ELSE SeparatorCount(Tail(s))

\* The position of the first "\n---\n" of s.
FirstSeparator(s) ==
  CHOOSE k \in 1..(Len(s) - 4) :
    /\ SubSeq(s, k, k + 4) = <<"\n", "-", "-", "-", "\n">>
    /\ \A j \in 1..(k - 1) : SubSeq(s, j, j + 4) # <<"\n", "-", "-", "-", "\n">>

\* The one invocation a question-answering run makes on input s.
QuestionAnsweringRun(s) ==
  [task |-> "question-answering", pipe |-> pipeline,
   args |-> [question |-> Trim(SubSeq(s, 1, FirstSeparator(s) - 1)),
             context |-> Trim(SubSeq(s, FirstSeparator(s) + 5, Len(s)))]]

\* C12 as stated: a question-answering run whose input has zero or two or
\* more "---" delimiter lines sets output to the format hint and calls no
\* pipeline; one whose input has exactly one calls the pipeline once with
\* the trimmed question and the trimmed context.
HintUnlessOneDelimiterLine ==
  [][(ClickRun /\ modelType = "question-answering") =>
       IF DelimiterLines(input) # 1
       THEN output' = FormatHint /\ runs' = runs
       ELSE runs' = Append(runs, QuestionAnsweringRun(input))]_vars

\* C12 as amended: the count is that of the non-overlapping occurrences of
\* "\n---\n", left to right.
HintUnlessOneSeparator ==
  [][(ClickRun /\ modelType = "question-answering") =>
       IF SeparatorCount(input) # 1
       THEN output' = FormatHint /\ runs' = runs /\ ~processing'
       ELSE runs' = Append(runs, QuestionAnsweringRun(input))]_vars

\* A question-answering run in flight with its trimmed question and context.
HintUnlessOneSeparatorWitness ==
  /\ modelType = "question-answering"
  /\ Len(runs) = 1
  /\ runs[1].args = [question |-> <<"Q", "?">>, context |-> <<"C">>]

\* C13: at most one of loading, loaded and a present error holds.
StatusExclusive ==
  /\ ~(modelStatus.loading /\ modelStatus.loaded)
  /\ ~(modelStatus.loaded /\ modelStatus.error # Null)
  /\ ~(modelStatus.loading /\ modelStatus.error # Null)

\* A Failed status that a progress event has since written to.
StatusExclusiveWitness ==
  modelStatus.error # Null /\ modelStatus.progress # 0 /\ pipeline # Null

\* C14: whenever loaded is true, progress is 100 and the pipeline handle is
\* non-empty.
ReadyMeansComplete ==
  modelStatus.loaded => (modelStatus.progress = 100 /\ pipeline # Null)

\* C15: a load and a run are never in flight together and at most one load
\* is in flight; the selection changes only while neither loading nor
\* processing is true; a run starts only while loading is false.
LoadAndRunExclusive ==
  /\ [](/\ ~(loads # <<>> /\ runs # <<>>)
        /\ ~(modelStatus.loading /\ processing)
        /\ Len(loads) <= 1)
  /\ [][modelType' # modelType =>
          /\ ~modelStatus.loading /\ ~processing
          /\ loads = <<>> /\ runs = <<>>]_vars
  /\ [][Invokes => (~modelStatus.loading /\ loads = <<>>)]_vars

\* A run in flight on a task whose load followed a selection.
LoadAndRunExclusiveWitness ==
  runs # <<>> /\ loads = <<>> /\ modelType = "translation"

\* C16: while loading is true, output is empty.
OutputEmptyWhileLoading == modelStatus.loading => output = ""

\* A load in flight in a state where a run was possible before it.
OutputEmptyWhileLoadingWitness ==
  modelStatus.loading /\ pipeline # Null /\ Trim(input) # <<>>

\* ------------------------------------------------- runModel called directly
\* Largest number of invocations in flight when runModel is called directly.
MaxRuns == 2

\* The states runModel can be called in: a mounted view with no load in
\* flight, the status Idle, Ready or Failed, the handle empty before the
\* first success, the input still empty while the handle is.
RunModelInit ==
  /\ modelType \in ModelType
  /\ input \in Inputs
  /\ output \in {"", FormatHint}
  /\ processing = FALSE
  /\ modelStatus \in
       {[loaded |-> FALSE, loading |-> FALSE, error |-> Null, progress |-> 0], ReadyStatus}
         \cup { FailedStatus(m) : m \in Messages }
  /\ pipeline \in ModelType \cup {Null}
  /\ modelStatus.loaded => pipeline = modelType
  /\ pipeline = Null => input = <<>>
  /\ mounted = TRUE
  /\ loads = <<>>
  /\ runs = <<>>
  /\ callbackHeld = FALSE
  /\ lastProgress = <<>>
  /\ returnedEarly = FALSE

\* A call of runModel, whatever the state of the button.
CallRunModel ==
  /\ Len(runs) < MaxRuns
  /\ RunModel
  /\ UNCHANGED <<modelType, input, modelStatus, pipeline, mounted, loads, callbackHeld, lastProgress>>

RunModelNext ==
  \/ CallRunModel
  \/ \E i \in DOMAIN runs, r \in AllResults : RunResolve(i, r)
  \/ \E i \in DOMAIN runs, m \in Messages : RunReject(i, m)

RunModelSpec == RunModelInit /\ [][RunModelNext]_vars

\* C17: a call of runModel with an empty pipeline handle or a blank input
\* changes none of processing, output, status, handle, selection and input
\* and invokes no pipeline.
EarlyReturnIsNoOp ==
  [][(CallRunModel /\ (pipeline = Null \/ Trim(input) = <<>>)) =>
       /\ UNCHANGED <<processing, output, modelStatus, pipeline, modelType, input>>
       /\ runs' = runs
       /\ returnedEarly']_vars

\* runModel has returned early on a whitespace-only input with a handle present.
EarlyReturnIsNoOpWitness ==
  returnedEarly /\ pipeline # Null /\ input = <<" ", "\n">> /\ runs = <<>>

\* C18: every step of a run (its start, its format hint, its resolution,
\* its rejection) leaves the selection, the input, the status and the
\* pipeline handle unchanged.
RunStep == runs' # runs \/ processing' # processing \/ output' \notin {output, ""}

RunChangesOnlyProcessingAndOutput ==
  [][RunStep => UNCHANGED <<modelType, input, modelStatus, pipeline>>]_vars

\* A run has completed with a result.
RunChangesOnlyProcessingAndOutputWitness ==
  output = "Sentiment: POSITIVE\nConfidence: 99.87%" /\ ~processing /\ runs = <<>>

\* C19: a callback event leaves everything but the progress field of the
\* status unchanged, and an event whose kind is not "progress" leaves the
\* status unchanged too.
CallbackChangesOnlyProgress ==
  [][\A e \in ProgressEvents :
       ProgressCallback(e) =>
         /\ UNCHANGED <<modelType, input, output, processing, pipeline, loads, runs>>
         /\ modelStatus'.loaded = modelStatus.loaded
         /\ modelStatus'.loading = modelStatus.loading
         /\ modelStatus'.error = modelStatus.error
         /\ e.status # "progress" => modelStatus' = modelStatus]_vars

\* A "progress" event has set progress during a load.
CallbackChangesOnlyProgressWitness ==
  /\ modelStatus.loading /\ modelStatus.progress = 50
  /\ lastProgress = <<[loaded |-> 1, total |-> 2]>>

====
